---- MODULE Spec2Model ----
(***************************************************************************)
(* Model of EasyProspector's model and synthesis configuration:            *)
(*   - BaseModel (src/models.py): the parameter graph built from a config  *)
(*     by an ordered sequence of patches;                                  *)
(*   - ProspectorSPSBuilder (src/sps.py): the choice of the synthesis      *)
(*     basis and the instrumental line-spread kernel injected into it.     *)
(*                                                                         *)
(* Numbers.  Literal constants of the source are kept as the literal's     *)
(* text ("10.5").  Values computed from the config are integers: a         *)
(* redshift is held in hundredths (0.5 is 50), a wavelength in Angstrom, a *)
(* velocity dispersion in km/s rounded down, a rest wavelength as the      *)
(* exact fraction n/d.                                                     *)
(***************************************************************************)
EXTENDS Integers, Sequences, FiniteSets, TLC

VARIABLES
    config,           \* FitConfig of the target being processed
    model_params,     \* BaseModel.model_params of the latest construction
    status,           \* "configured" | "built" | "raised"
    error,            \* class of the exception that left the constructor
    builds,           \* constructions completed or failed in this process
    first,            \* config and outcome of the first construction
    basis_imported,   \* whether prospect.sources gave the basis classes
    spectroscopy,     \* data_handler.spectroscopy: <<>> for None, else <<arrays>>
    dispersion,       \* the file config.dispersion_file names, as the disk holds it
    pc,               \* position of build_sps
    sps,              \* the basis object build_sps works on
    wave_obs,         \* locals of _apply_smoothing and _get_lsf
    sigma_v,
    wave_lsf,         \* the pair _get_lsf returns
    delta_v,
    reads,            \* times the dispersion file has been opened
    returned,         \* what build_sps handed to its caller: <<>> or <<sps>>
    local_targets,    \* the targets assigned to this worker, in order
    results,          \* what run_fitting_pipeline returned for each target so far
    targets,          \* base_config.targets, the paths of the whole run
    rank_pc,          \* position of each MPI rank in the main program
    rank_targets,     \* local_targets of each rank
    processed,        \* the paths each rank has run the pipeline for, in order
    writes            \* result files written: [rank, file] for each write

graph_vars == <<config, model_params, status, error, builds, first>>

sps_vars == <<basis_imported, spectroscopy, dispersion, pc, sps, wave_obs, sigma_v,
              wave_lsf, delta_v, reads, returned>>

mpi_vars == <<targets, rank_pc, rank_targets, processed, writes>>

batch_vars == <<local_targets, results, mpi_vars>>

vars == <<graph_vars, sps_vars, batch_vars>>

-----------------------------------------------------------------------------
(* Bounds of the model. *)

MaxBins == 4
MaxLines == 1
MaxBuilds == 3
MaxPix == 2
MaxTargets == 2
MaxRanks == 2
MaxList == 3

-----------------------------------------------------------------------------
(* Parameter nodes: the dictionaries stored under each key of model_params. *)
(* A key the dictionary does not hold is "absent".                          *)

NoPrior == [kind |-> "absent"]

TopHat(mini, maxi) == [kind |-> "TopHat", mini |-> mini, maxi |-> maxi]

ClippedNormal(mean, sigma, mini, maxi) ==
    [kind |-> "ClippedNormal", mean |-> mean, sigma |-> sigma,
     mini |-> mini, maxi |-> maxi]

Normal(mean, sigma) == [kind |-> "Normal", mean |-> mean, sigma |-> sigma]

LogUniform(mini, maxi) == [kind |-> "LogUniform", mini |-> mini, maxi |-> maxi]

StudentT(n) == [kind |-> "StudentT", mean |-> [i \in 1..n |-> "0"],
                scale |-> [i \in 1..n |-> "0.3"], df |-> [i \in 1..n |-> "2"]]

Node(N, isfree, init, units, prior, depends_on) ==
    [N |-> N, isfree |-> isfree, init |-> init, units |-> units,
     prior |-> prior, depends_on |-> depends_on]

Fixed(N, init, units) == Node(N, FALSE, init, units, NoPrior, "absent")

(* mutant: a free node is written without its prior *)
FreeWithoutPrior(N, init, units, prior) ==
    [N |-> N, isfree |-> TRUE, init |-> init, units |-> units,
     prior |-> [kind |-> "absent"], depends_on |-> "absent"]

Free(N, init, units, prior) == Node(N, TRUE, init, units, prior, "absent")

(* dict.__setitem__ and dict.update on the graph *)
SetItem(g, k, node) == (k :> node) @@ g

Update(g, t) == t @@ g

EmptyParams == [x \in {} |-> NoPrior]

-----------------------------------------------------------------------------
(* The templates of prospect.models.templates that BaseModel merges.  The  *)
(* directory hands out a deep copy of an entry on every lookup, so what a  *)
(* caller does to the copy never reaches the directory.                    *)

ContinuitySfhTemplate ==
    [k \in {"zred", "mass", "logzsol", "dust2", "sfh", "imf_type", "dust_type",
            "agebins", "logmass", "logsfr_ratios"} |->
       CASE k = "zred"          -> Node(1, FALSE, "0.1", "redshift", TopHat("0.0", "4.0"), "absent")
         [] k = "mass"          -> Node(3, FALSE, "1e6", "M_sun", NoPrior, "logsfr_ratios_to_masses")
         [] k = "logzsol"       -> Free(1, "-0.5", "log(Z/Z_sun)", TopHat("-2", "0.19"))
         [] k = "dust2"         -> Free(1, "0.6", "optical depth at 5500AA", TopHat("0.0", "2.0"))
         [] k = "sfh"           -> Fixed(1, "3", "FSPS index")
         [] k = "imf_type"      -> Fixed(1, "2", "FSPS index")
         [] k = "dust_type"     -> Fixed(1, "0", "FSPS index")
         [] k = "agebins"       -> Fixed(3, [i \in 1..3 |-> <<i - 1, i>>], "log(yr)")
         [] k = "logmass"       -> Free(1, "10", "Msun", TopHat("7", "12"))
         [] k = "logsfr_ratios" -> Free(2, [i \in 1..2 |-> "0"], "absent", StudentT(2))]

DustEmissionTemplate ==
    [k \in {"add_dust_emission", "duste_umin", "duste_qpah", "duste_gamma"} |->
       CASE k = "add_dust_emission" -> Fixed(1, TRUE, "absent")
         [] k = "duste_umin"  -> Node(1, FALSE, "1.0", "MMP83 local MW intensity", TopHat("0.1", "25"), "absent")
         [] k = "duste_qpah"  -> Node(1, FALSE, "4.0", "Percent mass fraction of PAHs in dust", TopHat("0.5", "7.0"), "absent")
         [] k = "duste_gamma" -> Node(1, FALSE, "0.001", "Mass fraction of dust in high radiation intensity", LogUniform("0.001", "0.15"), "absent")]

NebularTemplate ==
    [k \in {"add_neb_emission", "add_neb_continuum", "nebemlineinspec",
            "gas_logz", "gas_logu"} |->
       CASE k = "add_neb_emission"  -> Fixed(1, TRUE, "absent")
         [] k = "add_neb_continuum" -> Fixed(1, TRUE, "absent")
         [] k = "nebemlineinspec"   -> Fixed(1, TRUE, "absent")
         [] k = "gas_logz" -> Node(1, FALSE, "0.0", "log Z/Z_sun", TopHat("-2.0", "0.5"), "stellar_logzsol")
         [] k = "gas_logu" -> Node(1, FALSE, "-2.0", "Q_H/N_H", TopHat("-4", "-1"), "absent")]

SpectralSmoothingTemplate ==
    [k \in {"smoothtype", "fftsmooth", "sigma_smooth"} |->
       CASE k = "smoothtype"   -> Fixed(1, "vel", "absent")
         [] k = "fftsmooth"    -> Fixed(1, TRUE, "absent")
         [] k = "sigma_smooth" -> Free(1, "200.0", "km/s", TopHat("10", "300"))]

OptimizeSpeccalTemplate ==
    [k \in {"spec_norm", "polyorder", "poly_regularization"} |->
       CASE k = "spec_norm" -> Node(1, FALSE, "1.0", "f_true/f_obs", Normal("1.0", "0.1"), "absent")
         [] k = "polyorder" -> Fixed(1, "10", "absent")
         [] k = "poly_regularization" -> Fixed(1, "0.", "absent")]

NebularMarginalizationTemplate ==
    [k \in {"marginalize_elines", "use_eline_prior", "nebemlineinspec",
            "elines_to_fit", "eline_prior_width", "eline_sigma"} |->
       CASE k = "marginalize_elines" -> Fixed(1, TRUE, "absent")
         [] k = "use_eline_prior"    -> Fixed(1, TRUE, "absent")
         [] k = "nebemlineinspec"    -> Fixed(1, FALSE, "absent")
         [] k = "elines_to_fit"      -> Fixed(1, <<>>, "absent")
         [] k = "eline_prior_width"  -> Fixed(1, "0.2", "sigma of the line amplitude prior")
         [] k = "eline_sigma"        -> Free(1, "100.0", "km/s", TopHat("30", "300"))]

TemplateLibrary ==
    [t \in {"continuity_sfh", "dust_emission", "nebular", "spectral_smoothing",
            "optimize_speccal", "nebular_marginalization"} |->
       CASE t = "continuity_sfh"     -> ContinuitySfhTemplate
         [] t = "dust_emission"      -> DustEmissionTemplate
         [] t = "nebular"            -> NebularTemplate
         [] t = "spectral_smoothing" -> SpectralSmoothingTemplate
         [] t = "optimize_speccal"   -> OptimizeSpeccalTemplate
         [] t = "nebular_marginalization" -> NebularMarginalizationTemplate]

-----------------------------------------------------------------------------
(* Configurations.  redshift is <<>> for None and <<z>> for an estimate z  *)
(* (in hundredths); lines is the list of the line labels of config.lines.  *)

Redshifts == {<<>>, <<50>>}

Lines == {[i \in 1..n |-> i] : n \in 0..MaxLines}

Configs ==
    [nbins : 4..MaxBins, redshift : Redshifts, fixed_z : BOOLEAN,
     add_dust1 : BOOLEAN, add_duste : BOOLEAN, add_nebular : BOOLEAN,
     use_spectroscopy : BOOLEAN, use_photometry : BOOLEAN,
     fit_outliers_spec : BOOLEAN, fit_outliers_photo : BOOLEAN,
     margin_elines : BOOLEAN, fit_eline_redshift : BOOLEAN, lines : Lines]

(* The nodes a transform of prospect.models.transforms reads, by the names *)
(* of its arguments                                                        *)
TransformSources(transform) ==
    CASE transform = "logsfr_ratios_to_masses" -> {"logmass", "logsfr_ratios", "agebins"}
      [] transform = "dustratio_to_dust1"      -> {"dust1_fraction", "dust2"}
      [] transform = "stellar_logzsol"         -> {"logzsol"}
      [] OTHER                                 -> {}

(* z = self.config.redshift if self.config.redshift is not None else 0.0 *)
RedshiftOrZero(cfg) == IF cfg.redshift = <<>> THEN 0 ELSE cfg.redshift[1]

-----------------------------------------------------------------------------
(* The patches of BaseModel.__init__, in the order it applies them. *)

(* prospect's adjust_continuity_agebins: resizes the binned nodes in place *)
AdjustContinuityAgebins(g, nbins) ==
    [g EXCEPT !["mass"].N = nbins,
              !["agebins"].N = nbins,
              !["agebins"].init = [i \in 1..nbins |-> <<i - 1, i>>],
              !["logsfr_ratios"].N = nbins - 1,
              !["logsfr_ratios"].init = [i \in 1..(nbins - 1) |-> "0"],
              !["logsfr_ratios"].prior = StudentT(nbins - 1)]

(* mutant: the node is seeded with 0.0 instead of the estimate *)
RedshiftNodeAtZero(cfg) ==
    IF ~cfg.fixed_z
      THEN Free(1, 0, "redshift", ClippedNormal(0, 5, 0 - 50, 0 + 50))
      ELSE Fixed(1, 0, "redshift")

(* mutant: the fixed node is merged into the template's and keeps its prior *)
RedshiftNodeMerged(cfg) ==
    LET z == RedshiftOrZero(cfg) IN
    IF ~cfg.fixed_z
      THEN Free(1, z, "redshift", ClippedNormal(z, 5, z - 50, z + 50))
      ELSE Node(1, FALSE, z, "redshift", TopHat("0.0", "4.0"), "absent")

RedshiftNode(cfg) ==
    LET z == RedshiftOrZero(cfg) IN
    IF ~cfg.fixed_z
      THEN Free(1, z, "redshift", ClippedNormal(z, 5, z - 50, z + 50))
      ELSE Fixed(1, z, "redshift")

SetupSfh(g, lib, cfg) ==
    LET g1 == Update(g, lib["continuity_sfh"])
        g2 == Update(g1, AdjustContinuityAgebins(g1, cfg.nbins))
        g3 == SetItem(g2, "logmass",
                      Free(1, "10.5", "Solar masses formed", TopHat("6.0", "13.0")))
        g4 == SetItem(g3, "mass",
                      Node(cfg.nbins, FALSE, "1e6", "Solar masses formed", NoPrior,
                           "logsfr_ratios_to_masses"))
    IN  SetItem(g4, "zred", RedshiftNode(cfg))

SetupPhysicalParams(g) ==
    LET g1 == SetItem(g, "logzsol",
                      Free(1, "-0.3", "log (Z/Z_sun)", TopHat("-2.0", "0.5")))
    IN  SetItem(g1, "imf_type", Fixed(1, "1", "FSPS index"))

(* mutant: the birth-cloud patch also narrows the continuum optical depth *)
SetupDust1TouchingDust2(g) ==
    LET g1 == SetItem(g, "dust1",
                      Node(1, FALSE, "0.0", "absent", NoPrior, "dustratio_to_dust1"))
        g2 == SetItem(g1, "dust1_fraction",
                      Free(1, "1.0", "absent", ClippedNormal("1.0", "0.3", "0.0", "2.0")))
    IN  [g2 EXCEPT !["dust2"].prior = TopHat("0.0", "2.0")]

(* mutant: the derived node is written without the fraction it reads *)
SetupDust1WithoutFraction(g) ==
    SetItem(g, "dust1",
            Node(1, FALSE, "0.0", "absent", NoPrior, "dustratio_to_dust1"))

SetupDust1(g) ==
    LET g1 == SetItem(g, "dust1",
                      Node(1, FALSE, "0.0", "absent", NoPrior, "dustratio_to_dust1"))
    IN  SetItem(g1, "dust1_fraction",
                Free(1, "1.0", "absent", ClippedNormal("1.0", "0.3", "0.0", "2.0")))

SetupDustEmission(g, lib) ==
    [Update(g, lib["dust_emission"]) EXCEPT
        !["duste_gamma"].isfree = TRUE,
        !["duste_gamma"].prior = TopHat("0.0", "1.0"),
        !["duste_qpah"].isfree = TRUE,
        !["duste_qpah"].prior = TopHat("0.5", "10.0"),
        !["duste_umin"].isfree = TRUE,
        !["duste_umin"].prior = TopHat("0.1", "25.0")]

SetupDust(g, lib, cfg) ==
    LET g1 == SetItem(g, "dust_type", Fixed(1, "4", "FSPS index"))
        g2 == SetItem(g1, "dust2",
                      Free(1, "0.5", "optical depth at 5500AA", TopHat("0.0", "4.0")))
        g3 == SetItem(g2, "dust_index",
                      Free(1, "0.0", "absent", ClippedNormal("0.0", "0.3", "-1.5", "0.4")))
        g4 == IF cfg.add_dust1 THEN SetupDust1(g3) ELSE g3
    IN  IF cfg.add_duste THEN SetupDustEmission(g4, lib) ELSE g4

SetupNebular(g, lib) ==
    LET g1 == Update(g, lib["nebular"])
        g2 == SetItem(g1, "nebemlineinspec", Node(1, FALSE, FALSE, "absent", NoPrior, "absent"))
        g3 == SetItem(g2, "gas_logz", Free(1, "0.0", "absent", TopHat("-2.0", "0.5")))
        g4 == SetItem(g3, "gas_logu", Free(1, "-2.0", "absent", TopHat("-4.0", "-1.0")))
    IN  SetItem(g4, "eline_sigma", Free(1, "150.0", "km/s", TopHat("50", "500")))

SetupSpectroscopy(g, lib) ==
    LET g1 == Update(g, lib["spectral_smoothing"])
        g2 == SetItem(g1, "sigma_smooth",
                      Free(1, "1000.0", "km/s", TopHat("200.0", "2000.0")))
        g3 == Update(g2, lib["optimize_speccal"])
        g4 == SetItem(g3, "spec_norm", Free(1, "1.0", "absent", Normal("1.0", "0.2")))
        g5 == SetItem(g4, "spec_jitter", Free(1, "1.0", "absent", TopHat("0.0", "5.0")))
    IN  SetItem(g5, "polyorder", Fixed(1, "10", "absent"))

(* mutant: the outlier flags alone decide, whatever data is in use *)
SetupOutliersFlagOnly(g, cfg) ==
    LET g1 == IF cfg.fit_outliers_spec
                THEN SetItem(SetItem(g, "f_outlier_spec",
                                     Free(1, "0.01", "absent", TopHat("1e-5", "0.2"))),
                             "nsigma_outlier_spec", Fixed(1, "50.0", "absent"))
                ELSE g
    IN  IF cfg.fit_outliers_photo
          THEN SetItem(SetItem(g1, "f_outlier_phot",
                               Free(1, "0.00", "absent", TopHat("0", "0.1"))),
                       "nsigma_outlier_phot", Fixed(1, "50.0", "absent"))
          ELSE g1

SetupOutliers(g, cfg) ==
    LET g1 == IF cfg.fit_outliers_spec /\ cfg.use_spectroscopy
                THEN SetItem(SetItem(g, "f_outlier_spec",
                                     Free(1, "0.01", "absent", TopHat("1e-5", "0.2"))),
                             "nsigma_outlier_spec", Fixed(1, "50.0", "absent"))
                ELSE g
    IN  IF cfg.fit_outliers_photo /\ cfg.use_photometry
          THEN SetItem(SetItem(g1, "f_outlier_phot",
                               Free(1, "0.00", "absent", TopHat("0", "0.1"))),
                       "nsigma_outlier_phot", Fixed(1, "50.0", "absent"))
          ELSE g1

(* The result of a step that may raise: the graph so far and the exception *)
(* class, "none" when the step returned.                                   *)
Returned(g) == [params |-> g, raised |-> "none"]

Raised(g, cls) == [params |-> g, raised |-> cls]

(* mutant: the line table is looked at before the nebular precondition *)
SetupLineMarginalizationTableFirst(g, lib, cfg) ==
    IF cfg.lines = <<>> THEN Returned(g)
    ELSE IF ~cfg.add_nebular THEN Raised(g, "ValueError")
    ELSE
      LET n_lines == Len(cfg.lines)
          g1 == Update(g, lib["nebular_marginalization"])
          g2 == SetItem(g1, "elines_to_fit", Fixed(1, cfg.lines, "absent"))
          g3 == SetItem(g2, "eline_sigma",
                        Free(1, "300.0", "absent", TopHat("50.0", "1000.0")))
      IN  IF cfg.fit_eline_redshift
            THEN Returned(
                   SetItem(SetItem(g3, "fit_eline_redshift", Fixed(1, TRUE, "absent")),
                           "eline_delta_zred",
                           Free(n_lines, [i \in 1..n_lines |-> "0"], "absent",
                                TopHat("-0.01", "0.01"))))
            ELSE Returned(g3)

(* mutant: the marginalization template is merged before the table check *)
SetupLineMarginalizationEagerMerge(g, lib, cfg) ==
    IF ~cfg.add_nebular THEN Raised(g, "ValueError")
    ELSE
      LET n_lines == Len(cfg.lines)
          g1 == Update(g, lib["nebular_marginalization"])
          g2 == SetItem(g1, "elines_to_fit", Fixed(1, cfg.lines, "absent"))
          g3 == SetItem(g2, "eline_sigma",
                        Free(1, "300.0", "absent", TopHat("50.0", "1000.0")))
      IN  IF cfg.lines = <<>> THEN Returned(g1)
          ELSE IF cfg.fit_eline_redshift
            THEN Returned(
                   SetItem(SetItem(g3, "fit_eline_redshift", Fixed(1, TRUE, "absent")),
                           "eline_delta_zred",
                           Free(n_lines, [i \in 1..n_lines |-> "0"], "absent",
                                TopHat("-0.01", "0.01"))))
            ELSE Returned(g3)

SetupLineMarginalization(g, lib, cfg) ==
    IF ~cfg.add_nebular THEN Raised(g, "ValueError")
    ELSE IF cfg.lines = <<>> THEN Returned(g)
    ELSE
      LET n_lines == Len(cfg.lines)
          g1 == Update(g, lib["nebular_marginalization"])
          g2 == SetItem(g1, "elines_to_fit", Fixed(1, cfg.lines, "absent"))
          g3 == SetItem(g2, "eline_sigma",
                        Free(1, "300.0", "absent", TopHat("50.0", "1000.0")))
      IN  IF cfg.fit_eline_redshift
            THEN Returned(
                   SetItem(SetItem(g3, "fit_eline_redshift", Fixed(1, TRUE, "absent")),
                           "eline_delta_zred",
                           Free(n_lines, [i \in 1..n_lines |-> "0"], "absent",
                                TopHat("-0.01", "0.01"))))
            ELSE Returned(g3)

(* ProspectorModelBuilder.__init__: every instance starts from its own    *)
(* empty dictionary, whatever an earlier instance held.                   *)
(* mutant: one dictionary shared by all instances *)
SharedModelParams(previous) == previous

NewModelParams(previous) == EmptyParams

(* mutant: the nebular patch runs last, after the line marginalization *)
BaseModelNebularLast(previous, lib, cfg) ==
    LET g0 == NewModelParams(previous)
        g1 == SetupSfh(g0, lib, cfg)
        g2 == SetupPhysicalParams(g1)
        g3 == SetupDust(g2, lib, cfg)
        g5 == IF cfg.use_spectroscopy THEN SetupSpectroscopy(g3, lib) ELSE g3
        g6 == SetupOutliers(g5, cfg)
        r  == IF cfg.margin_elines THEN SetupLineMarginalization(g6, lib, cfg)
              ELSE Returned(g6)
    IN  IF r.raised # "none" \/ ~cfg.add_nebular THEN r
        ELSE Returned(SetupNebular(r.params, lib))

(* BaseModel.__init__ *)
BaseModel(previous, lib, cfg) ==
    LET g0 == NewModelParams(previous)
        g1 == SetupSfh(g0, lib, cfg)
        g2 == SetupPhysicalParams(g1)
        g3 == SetupDust(g2, lib, cfg)
        g4 == IF cfg.add_nebular THEN SetupNebular(g3, lib) ELSE g3
        g5 == IF cfg.use_spectroscopy THEN SetupSpectroscopy(g4, lib) ELSE g4
        g6 == SetupOutliers(g5, cfg)
    IN  IF cfg.margin_elines THEN SetupLineMarginalization(g6, lib, cfg)
        ELSE Returned(g6)

-----------------------------------------------------------------------------
(* The synthesis side before build_sps is entered. *)

NoBasis == [kind |-> "none", zcontinuous |-> 0, smooth_lsf |-> FALSE, lsf |-> <<>>]

NoDispersion == [exists |-> FALSE, readable |-> FALSE, wave |-> <<>>, R |-> <<>>]

(* No MPI run is modelled: one process, no target list *)
MpiIdle ==
    /\ targets = <<>>
    /\ rank_pc = <<>>
    /\ rank_targets = <<>>
    /\ processed = <<>>
    /\ writes = {}

(* No batch loop is running *)
BatchIdle ==
    /\ local_targets = <<>>
    /\ results = <<>>
    /\ MpiIdle

SpsIdle ==
    /\ basis_imported = TRUE
    /\ spectroscopy = <<>>
    /\ dispersion = NoDispersion
    /\ pc = "idle"
    /\ sps = NoBasis
    /\ wave_obs = <<>>
    /\ sigma_v = <<>>
    /\ wave_lsf = <<>>
    /\ delta_v = <<>>
    /\ reads = 0
    /\ returned = <<>>

-----------------------------------------------------------------------------
(* One worker process constructing BaseModel(config) for a sequence of     *)
(* targets: the first target has any configuration, a later one either the *)
(* first configuration again or the richest one.                           *)

RichConfig ==
    [nbins |-> MaxBins, redshift |-> <<50>>, fixed_z |-> TRUE,
     add_dust1 |-> TRUE, add_duste |-> TRUE, add_nebular |-> TRUE,
     use_spectroscopy |-> TRUE, use_photometry |-> TRUE,
     fit_outliers_spec |-> TRUE, fit_outliers_photo |-> TRUE,
     margin_elines |-> TRUE, fit_eline_redshift |-> TRUE,
     lines |-> [i \in 1..MaxLines |-> i]]

InitGraph ==
    /\ SpsIdle
    /\ BatchIdle
    /\ config \in Configs
    /\ model_params = EmptyParams
    /\ status = "configured"
    /\ error = "none"
    /\ builds = 0
    /\ first = [config |-> config, params |-> EmptyParams, error |-> "none"]

(* model = BaseModel(cfg): an exception leaves the caller no graph *)
Construct(cfg) ==
    LET r == BaseModel(model_params, TemplateLibrary, cfg)
        g == IF r.raised = "none" THEN r.params ELSE EmptyParams
    IN  /\ config' = cfg
        /\ model_params' = g
        /\ status' = IF r.raised = "none" THEN "built" ELSE "raised"
        /\ error' = r.raised
        /\ builds' = builds + 1
        /\ first' = IF builds = 0
                      THEN [config |-> cfg, params |-> g, error |-> r.raised]
                      ELSE first

FirstTarget ==
    /\ builds = 0
    /\ Construct(config)
    /\ UNCHANGED <<sps_vars, batch_vars>>

NextTarget ==
    /\ builds \in 1..(MaxBuilds - 1)
    /\ \E cfg \in {first.config, RichConfig} : Construct(cfg)
    /\ UNCHANGED <<sps_vars, batch_vars>>

NextGraph == FirstTarget \/ NextTarget

Spec == InitGraph /\ [][NextGraph]_vars

-----------------------------------------------------------------------------
(* Numbers of the line-spread computation.  A velocity dispersion is an    *)
(* integer number of km/s, rounded down; NaN is numpy's not-a-number.  A   *)
(* rest wavelength is the exact fraction num/den of Angstrom.              *)

Lightspeed == 299800
FwhmPerSigma == 2355
MilesFwhm == 2540
MilesMin == 3525
MilesMax == 7500
AngstromPerMicron == 10000
NaN == -1000000

(* x > c and x < c for a fraction x and an integer c, as numpy compares:   *)
(* a comparison with NaN is false                                          *)
FracGt(x, c) == x.num > c * x.den

FracLt(x, c) == x.num < c * x.den

Positive(v) == v # NaN /\ v > 0

(* np.sqrt at the model's resolution, for a radicand below (hi + 1)^2 *)
Sqrt(x, hi) ==
    IF x = NaN \/ x < 0 THEN NaN
    ELSE CHOOSE r \in 0..hi : r * r <= x /\ (r + 1) * (r + 1) > x

(* np.clip(x, 0, np.inf) *)
ClipAtZero(x) == IF x = NaN THEN NaN ELSE IF x < 0 THEN 0 ELSE x

(* array[mask]: the entries of array at the positions where mask holds *)
MaskIndex(mask) ==
    SelectSeq([i \in 1..Len(mask) |-> i], LAMBDA i : mask[i])

Masked(array, mask) ==
    LET idx == MaskIndex(mask) IN [k \in 1..Len(idx) |-> array[idx[k]]]

-----------------------------------------------------------------------------
(* ProspectorSPSBuilder._read_jwst_dispersion: the points of the           *)
(* interpolant, c / (R * 2.355) in km/s at each wavelength of the table    *)
(* (held in tenths of a micron).                                           *)

ReadJwstDispersion(file) ==
    [k \in 1..Len(file.wave) |->
        [wave |-> file.wave[k],
         sigma |-> (Lightspeed * 1000) \div (file.R[k] * FwhmPerSigma)]]

(* The segment of the interpolant used at x: the one that holds x, the     *)
(* first or the last one outside the table (fill_value="extrapolate")      *)
Segment(points, x) ==
    LET inside == {k \in 1..(Len(points) - 1) : points[k].wave * x.den <= 10 * x.num}
    IN  IF inside = {} THEN 1
        ELSE CHOOSE k \in inside : \A m \in inside : m <= k

(* interp_func(x) for x = num/den micron: linear between two points *)
InterpFunc(points, x) ==
    LET k  == Segment(points, x)
        p0 == points[k]
        p1 == points[k + 1]
    IN  p0.sigma + ((p1.sigma - p0.sigma) * (10 * x.num - p0.wave * x.den))
                       \div (x.den * (p1.wave - p0.wave))

(* sigma_v = interp_func(wave_obs / 10000.0) *)
EvaluateDispersion(points, wave) ==
    [i \in 1..Len(wave) |->
        InterpFunc(points, [num |-> wave[i], den |-> AngstromPerMicron])]

-----------------------------------------------------------------------------
(* ProspectorSPSBuilder._get_lsf *)

(* wave_obs_clean / (1.0 + zred), zred in hundredths *)
WaveRest(wave, zred) == [num |-> 100 * wave, den |-> 100 + zred]

(* lightspeed * miles_fwhm_aa / (2.355 * wave_rest), rounded down *)
SigmaVLib(rest) ==
    ((Lightspeed \div 100) * MilesFwhm * rest.den)
        \div (FwhmPerSigma * (rest.num \div 100))

(* mutant: a dispersion of zero passes the first filter *)
ValidDispersionOrZero(v) == v # NaN /\ v >= 0

(* valid_dispersion = sigma_v > 0 *)
ValidDispersion(v) == Positive(v)

(* mutant: the library domain is tested on the observed wavelength *)
ValidObservedWave(rest) ==
    rest.num > MilesMin * 100 /\ rest.num < MilesMax * 100

(* mutant: the two ends of the library domain are inside it *)
ValidRestWaveClosed(rest) == ~FracLt(rest, MilesMin) /\ ~FracGt(rest, MilesMax)

(* valid_rest_wave = (wave_rest > 3525.0) & (wave_rest < 7500.0) *)
ValidRestWave(rest) == FracGt(rest, MilesMin) /\ FracLt(rest, MilesMax)

(* mutant: the radicand is not clipped *)
QuadratureUnclipped(s, lib) == Sqrt(s * s - lib * lib, s)

(* np.sqrt(np.clip(sigma_v_clean**2 - sigma_v_lib**2, 0, np.inf)) *)
Quadrature(s, lib) == Sqrt(ClipAtZero(s * s - lib * lib), s)

GetLsf(wave, sigma, cfg) ==
    LET zred == RedshiftOrZero(cfg)
        valid_dispersion == [i \in 1..Len(sigma) |-> ValidDispersion(sigma[i])]
        wave_obs_clean == Masked(wave, valid_dispersion)
        sigma_v_clean == Masked(sigma, valid_dispersion)
        n == Len(wave_obs_clean)
        wave_rest == [k \in 1..n |-> WaveRest(wave_obs_clean[k], zred)]
        sigma_v_lib == [k \in 1..n |-> SigmaVLib(wave_rest[k])]
        valid_rest_wave == [k \in 1..n |-> ValidRestWave(wave_rest[k])]
        dsv == [k \in 1..n |-> Quadrature(sigma_v_clean[k], sigma_v_lib[k])]
    IN  [wave |-> Masked(wave_rest, valid_rest_wave),
         dsv |-> Masked(dsv, valid_rest_wave)]

-----------------------------------------------------------------------------
(* ProspectorSPSBuilder.build_sps, step by step, for one target: the graph *)
(* is the model's, the wavelengths are the data handler's, the dispersion  *)
(* file is what the disk holds under config.dispersion_file.               *)

(* Observed wavelength grids, in Angstrom, increasing *)
ObservedWaves == {3000, 3525, 4000, 7050, 7500, 9000, 12000, 15000}

Increasing(seq) == \A i \in 1..(Len(seq) - 1) : seq[i] < seq[i + 1]

Grids ==
    UNION {{g \in [1..n -> ObservedWaves] : Increasing(g)} : n \in 0..MaxPix}

(* A table of constant resolving power 1000 over 1 to 2 micron, and one    *)
(* whose resolving power rises from 1000 at 0.5 micron to 8000 at 1 micron *)
(* What the loader leaves in data_handler.spectroscopy: the wavelengths,   *)
(* and the flux and its error, of which only the lengths matter here.  The *)
(* loader compares the mask with the flux, never the wavelengths with the  *)
(* flux, so the two lengths may differ (filter_spec off).                  *)
Flux(n) == [i \in 1..n |-> "finite"]

Spectra ==
    {[wavelength |-> g, flux |-> Flux(n), flux_err |-> Flux(n)] :
        g \in Grids, n \in {1, MaxPix}}
    \cup {[wavelength |-> g, flux |-> Flux(Len(g)), flux_err |-> Flux(Len(g))] :
        g \in Grids}

DispersionFiles ==
    {NoDispersion,
     [exists |-> TRUE, readable |-> FALSE, wave |-> <<>>, R |-> <<>>],
     [exists |-> TRUE, readable |-> TRUE, wave |-> <<10, 20>>, R |-> <<1000, 1000>>],
     [exists |-> TRUE, readable |-> TRUE, wave |-> <<5, 10>>, R |-> <<1000, 8000>>]}

SpsConfigs ==
    [nbins : {4}, redshift : {<<>>, <<0>>, <<100>>}, fixed_z : {FALSE},
     add_dust1 : {FALSE}, add_duste : {FALSE}, add_nebular : {FALSE},
     use_spectroscopy : BOOLEAN, use_photometry : {TRUE},
     fit_outliers_spec : {FALSE}, fit_outliers_photo : {FALSE},
     margin_elines : {FALSE}, fit_eline_redshift : {FALSE}, lines : {<<>>},
     add_sigmav : BOOLEAN, dispersion_file : {<<>>, <<"lsf.fits">>},
     z_continuous : {1}]

(* The graphs a caller may hand to the builder: BaseModel's, and the same  *)
(* with an analytic timescale node, without the bin edges, or both         *)
TauNode == Free(1, "1", "Gyr^{-1}", LogUniform("0.1", "30"))

WithoutKey(g, key) == [k \in (DOMAIN g) \ {key} |-> g[k]]

ModelVariants(g) ==
    {g, SetItem(g, "tau", TauNode), WithoutKey(g, "agebins"),
     SetItem(WithoutKey(g, "agebins"), "tau", TauNode)}

InitSps ==
    /\ config \in SpsConfigs
    /\ model_params \in ModelVariants(BaseModel(EmptyParams, TemplateLibrary, config).params)
    /\ status = "built"
    /\ error = "none"
    /\ builds = 1
    /\ first = [config |-> config, params |-> model_params, error |-> "none"]
    /\ basis_imported = TRUE
    /\ spectroscopy \in IF config.use_spectroscopy
                          THEN {<<>>} \cup {<<d>> : d \in Spectra}
                          ELSE {<<>>}
    /\ dispersion \in DispersionFiles
    /\ pc = "select"
    /\ sps = NoBasis
    /\ wave_obs = <<>>
    /\ sigma_v = <<>>
    /\ wave_lsf = <<>>
    /\ delta_v = <<>>
    /\ reads = 0
    /\ returned = <<>>
    /\ BatchIdle

(* mutant: the exception is swallowed and build_sps carries on to its return *)
RaiseSwallowed(cls) ==
    /\ pc' = "return"
    /\ error' = cls

Raise(cls) ==
    /\ pc' = "raised"
    /\ error' = cls

NewBasis(kind, zcont) ==
    [kind |-> kind, zcontinuous |-> zcont, smooth_lsf |-> FALSE, lsf |-> <<>>]

(* mutant: the analytic timescale is looked for first *)
BasisKindTauFirst(keys) ==
    IF "tau" \in keys THEN "CSPSpecBasis"
    ELSE IF "agebins" \in keys THEN "FastStepBasis"
    ELSE "none"

(* The class build_sps instantiates for a graph with these keys *)
BasisKind(keys) ==
    IF "agebins" \in keys THEN "FastStepBasis"
    ELSE IF "tau" \in keys THEN "CSPSpecBasis"
    ELSE "none"

(* mutant: a graph with neither node falls through to the smoothing step *)
AfterSelectionLenient(kind) == "smoothing"

(* Where build_sps goes once the graph has been inspected *)
AfterSelection(kind) == IF kind = "none" THEN "raised" ELSE "smoothing"

(* build_sps, part 1: the import guard and the choice of the basis *)
SelectBasis ==
    /\ pc = "select"
    /\ IF ~basis_imported
         THEN Raise("ImportError") /\ UNCHANGED sps
         ELSE LET kind == BasisKind(DOMAIN model_params) IN
              /\ pc' = AfterSelection(kind)
              /\ error' = IF pc' = "raised" THEN "ValueError" ELSE error
              /\ sps' = IF kind = "none" THEN sps
                        ELSE NewBasis(kind, config.z_continuous)
    /\ UNCHANGED <<config, model_params, status, builds, first, basis_imported,
                   spectroscopy, dispersion, wave_obs, sigma_v, wave_lsf, delta_v,
                   reads, returned,
                   batch_vars>>

(* mutant: the resolution flag alone sends build_sps to the smoothing *)
DecideSmoothingFlagOnly ==
    /\ pc = "smoothing"
    /\ pc' = IF config.add_sigmav THEN "apply" ELSE "return"
    /\ UNCHANGED <<graph_vars, basis_imported, spectroscopy, dispersion, sps,
                   wave_obs, sigma_v, wave_lsf, delta_v, reads, returned,
                   batch_vars>>

(* build_sps, part 2: whether the instrumental smoothing is applied *)
DecideSmoothing ==
    /\ pc = "smoothing"
    /\ pc' = IF config.add_sigmav /\ "agebins" \in DOMAIN model_params
                  /\ config.dispersion_file # <<>>
               THEN "apply"
               ELSE "return"
    /\ UNCHANGED <<graph_vars, basis_imported, spectroscopy, dispersion, sps,
                   wave_obs, sigma_v, wave_lsf, delta_v, reads, returned,
                   batch_vars>>

(* _apply_smoothing up to the evaluation of the interpolant: a missing     *)
(* file is a FileNotFoundError; anything raised while the wavelengths are  *)
(* fetched or the file is read leaves as a ValueError                      *)
ReadDispersion ==
    /\ pc = "apply"
    /\ IF ~dispersion.exists
         THEN Raise("FileNotFoundError") /\ UNCHANGED <<wave_obs, sigma_v, reads>>
       ELSE IF spectroscopy = <<>>
         THEN Raise("ValueError") /\ UNCHANGED <<wave_obs, sigma_v, reads>>
       ELSE IF ~dispersion.readable
         THEN /\ Raise("ValueError")
              /\ wave_obs' = spectroscopy[1].wavelength
              /\ reads' = reads + 1
              /\ UNCHANGED sigma_v
       ELSE /\ wave_obs' = spectroscopy[1].wavelength
            /\ reads' = reads + 1
            /\ sigma_v' = EvaluateDispersion(ReadJwstDispersion(dispersion),
                                             spectroscopy[1].wavelength)
            /\ pc' = "get_lsf"
            /\ UNCHANGED error
    /\ UNCHANGED <<config, model_params, status, builds, first, basis_imported,
                   spectroscopy, dispersion, sps, wave_lsf, delta_v, returned,
                   batch_vars>>

(* wave_lsf, delta_v = self._get_lsf(wave_obs, sigma_v) *)
ComputeLsf ==
    /\ pc = "get_lsf"
    /\ LET lsf == GetLsf(wave_obs, sigma_v, config) IN
       /\ wave_lsf' = lsf.wave
       /\ delta_v' = lsf.dsv
    /\ pc' = "enable"
    /\ UNCHANGED <<graph_vars, basis_imported, spectroscopy, dispersion, sps,
                   wave_obs, sigma_v, reads, returned,
                   batch_vars>>

(* sps.ssp.params["smooth_lsf"] = True *)
EnableSmoothing ==
    /\ pc = "enable"
    /\ sps' = [sps EXCEPT !.smooth_lsf = TRUE]
    /\ pc' = "set_lsf"
    /\ UNCHANGED <<graph_vars, basis_imported, spectroscopy, dispersion,
                   wave_obs, sigma_v, wave_lsf, delta_v, reads, returned,
                   batch_vars>>

(* mutant: the injection returns without attaching the kernel *)
SetLsfDropped ==
    /\ pc = "set_lsf"
    /\ pc' = "return"
    /\ UNCHANGED <<graph_vars, basis_imported, spectroscopy, dispersion, sps,
                   wave_obs, sigma_v, wave_lsf, delta_v, reads, returned,
                   batch_vars>>

(* sps.ssp.set_lsf(wave_lsf, delta_v): the basis takes wave.min() and       *)
(* wave.max() and interpolates the kernel onto its own wavelengths, which  *)
(* numpy refuses for zero-length arrays with a ValueError                  *)
SetLsf ==
    /\ pc = "set_lsf"
    /\ IF Len(wave_lsf) = 0
         THEN Raise("ValueError") /\ UNCHANGED sps
         ELSE /\ sps' = [sps EXCEPT !.lsf = <<[wave |-> wave_lsf, sigma |-> delta_v]>>]
              /\ pc' = "return"
              /\ UNCHANGED error
    /\ UNCHANGED <<config, model_params, status, builds, first, basis_imported,
                   spectroscopy, dispersion, wave_obs, sigma_v, wave_lsf, delta_v,
                   reads, returned,
                   batch_vars>>

(* return sps *)
ReturnBasis ==
    /\ pc = "return"
    /\ returned' = <<sps>>
    /\ pc' = "done"
    /\ UNCHANGED <<graph_vars, basis_imported, spectroscopy, dispersion, sps,
                   wave_obs, sigma_v, wave_lsf, delta_v, reads,
                   batch_vars>>

NextSps ==
    \/ SelectBasis
    \/ DecideSmoothing
    \/ ReadDispersion
    \/ ComputeLsf
    \/ EnableSmoothing
    \/ SetLsf
    \/ ReturnBasis

SpecSps == InitSps /\ [][NextSps]_vars

-----------------------------------------------------------------------------
(* _get_lsf on its own: any wavelength grid, any dispersion array of the   *)
(* same length, any redshift estimate.                                     *)

Dispersions == {NaN, -5, 0, 40, 60, 90, 127}

InitLsf ==
    /\ config \in {c \in SpsConfigs : /\ c.use_spectroscopy /\ c.add_sigmav
                                      /\ c.dispersion_file # <<>>}
    /\ model_params = BaseModel(EmptyParams, TemplateLibrary, config).params
    /\ status = "built"
    /\ error = "none"
    /\ builds = 1
    /\ first = [config |-> config, params |-> model_params, error |-> "none"]
    /\ basis_imported = TRUE
    /\ wave_obs \in Grids
    /\ sigma_v \in [1..Len(wave_obs) -> Dispersions]
    /\ spectroscopy = <<[wavelength |-> wave_obs, flux |-> Flux(Len(wave_obs)),
                         flux_err |-> Flux(Len(wave_obs))]>>
    /\ dispersion = NoDispersion
    /\ pc = "get_lsf"
    /\ sps = NewBasis("FastStepBasis", config.z_continuous)
    /\ wave_lsf = <<>>
    /\ delta_v = <<>>
    /\ reads = 0
    /\ returned = <<>>
    /\ BatchIdle

SpecLsf == InitLsf /\ [][ComputeLsf]_vars

-----------------------------------------------------------------------------
(* The batch loop of run.py: one worker takes its targets one after the    *)
(* other, each through run_fitting_pipeline.                               *)

(* The base configuration every target's config is a deep copy of *)
BaseConfig(margin, sigmav) ==
    [nbins |-> 4, redshift |-> <<>>, fixed_z |-> FALSE,
     add_dust1 |-> FALSE, add_duste |-> FALSE, add_nebular |-> FALSE,
     use_spectroscopy |-> TRUE, use_photometry |-> TRUE,
     fit_outliers_spec |-> FALSE, fit_outliers_photo |-> FALSE,
     margin_elines |-> margin, fit_eline_redshift |-> FALSE, lines |-> <<>>,
     add_sigmav |-> sigmav, dispersion_file |-> <<"lsf.fits">>,
     z_continuous |-> 1]

(* The base configurations: any of the two flags, one with a redshift     *)
(* given on the command line, and one with each data type switched off     *)
BaseConfigs ==
    {BaseConfig(margin, sigmav) : margin \in BOOLEAN, sigmav \in BOOLEAN}
    \cup {[BaseConfig(FALSE, TRUE) EXCEPT !.redshift = <<100>>],
          [BaseConfig(FALSE, FALSE) EXCEPT !.use_spectroscopy = FALSE],
          [BaseConfig(FALSE, FALSE) EXCEPT !.use_photometry = FALSE]}

(* The HDF5 file of a target: absent, without the version group, or with   *)
(* a redshift in its metadata and with or without a Spectroscopy group     *)
(* The spectrum of the targets of the batch *)
TargetSpectrum ==
    [wavelength |-> <<9000, 12000>>, flux |-> Flux(2), flux_err |-> Flux(2)]

(* The metadata may hold no redshift (<<>>), or one that float() refuses   *)
(* (numeric is FALSE); photometry tells whether the Photometry group is    *)
(* in the file                                                             *)
TargetFiles ==
    {[state |-> "missing", redshift |-> <<>>, numeric |-> FALSE,
      spectroscopy |-> <<>>, photometry |-> FALSE],
     [state |-> "no_version", redshift |-> <<>>, numeric |-> FALSE,
      spectroscopy |-> <<>>, photometry |-> FALSE],
     [state |-> "ok", redshift |-> <<0>>, numeric |-> TRUE,
      spectroscopy |-> <<TargetSpectrum>>, photometry |-> FALSE]}
    \cup [state : {"ok"}, redshift : {<<0>>, <<100>>}, numeric : {TRUE},
          spectroscopy : {<<>>, <<TargetSpectrum>>}, photometry : {TRUE}]
    \cup [state : {"ok"}, redshift : {<<>>, <<100>>}, numeric : {FALSE},
          spectroscopy : {<<TargetSpectrum>>}, photometry : {TRUE}]

(* mutant: the redshift of the file replaces the one of the config *)
UpdateConfigFromMetadataFileWins(cfg, file) ==
    IF file.redshift = <<>> \/ ~file.numeric THEN cfg
    ELSE [cfg EXCEPT !.redshift = file.redshift]

(* GalaxyDataManager._update_config_from_metadata *)
UpdateConfigFromMetadata(cfg, file) ==
    IF file.redshift = <<>> THEN cfg
    ELSE IF ~file.numeric THEN cfg
    ELSE IF cfg.redshift = <<>> THEN [cfg EXCEPT !.redshift = file.redshift]
    ELSE cfg

(* Classes raised in the pipeline; each derives from Exception *)
ExceptionSubclasses ==
    {"ValueError", "FileNotFoundError", "KeyError", "ImportError", "TypeError",
     "RuntimeError"}

(* mutant: the pipeline has no handler and the exception leaves the loop *)
ExceptNothing(cls) == "crashed"

(* except Exception: log, return None; the for loop takes the next target *)
ExceptException(cls) == IF cls \in ExceptionSubclasses THEN "next" ELSE "crashed"

InitBatch ==
    /\ config \in BaseConfigs
    /\ \E n \in 1..MaxTargets :
          local_targets \in [1..n -> [config : {config}, file : TargetFiles]]
    /\ results = <<>>
    /\ MpiIdle
    /\ model_params = EmptyParams
    /\ status = "configured"
    /\ error = "none"
    /\ builds = 0
    /\ first = [config |-> config, params |-> EmptyParams, error |-> "none"]
    /\ basis_imported = TRUE
    /\ spectroscopy = <<>>
    /\ dispersion \in DispersionFiles
    /\ pc = "next"
    /\ sps = NoBasis
    /\ wave_obs = <<>>
    /\ sigma_v = <<>>
    /\ wave_lsf = <<>>
    /\ delta_v = <<>>
    /\ reads = 0
    /\ returned = <<>>

(* The loop head and step 1 of run_fitting_pipeline: local_config is a     *)
(* deep copy of the base config; load_data raises for a missing file or    *)
(* version, reads the spectroscopy if it is wanted and there, and takes    *)
(* the redshift of the metadata when the config has none                   *)
LoadData ==
    /\ pc = "next"
    /\ Len(results) < Len(local_targets)
    /\ LET t == local_targets[Len(results) + 1]
           ok == t.file.state = "ok"
       IN  /\ config' = IF ok THEN UpdateConfigFromMetadata(t.config, t.file)
                          ELSE t.config
           /\ spectroscopy' = IF ok /\ t.config.use_spectroscopy
                                THEN t.file.spectroscopy ELSE <<>>
           /\ pc' = IF ok THEN "model" ELSE "raised"
           /\ error' = IF ok THEN "none"
                       ELSE IF t.file.state = "missing" THEN "FileNotFoundError"
                       ELSE "KeyError"
    /\ sps' = NoBasis
    /\ wave_obs' = <<>> /\ sigma_v' = <<>>
    /\ wave_lsf' = <<>> /\ delta_v' = <<>>
    /\ reads' = 0
    /\ returned' = <<>>
    /\ UNCHANGED <<model_params, status, builds, first, basis_imported,
                   dispersion, batch_vars>>

(* Step 2: model = BaseModel(config) *)
BuildModel ==
    /\ pc = "model"
    /\ Construct(config)
    /\ pc' = IF BaseModel(model_params, TemplateLibrary, config).raised = "none"
               THEN "select" ELSE "raised"
    /\ UNCHANGED <<basis_imported, spectroscopy, dispersion, sps, wave_obs,
                   sigma_v, wave_lsf, delta_v, reads, returned, batch_vars>>

(* data.photometry after load_data: read when it is wanted and the group   *)
(* is in the file, None (FALSE here) otherwise                             *)
Photometry ==
    /\ config.use_photometry
    /\ local_targets[Len(results) + 1].file.photometry

(* GalaxyDataManager.to_dict subscripts data.spectroscopy and              *)
(* data.photometry, whatever the flags: either being None is a TypeError   *)
ToDict == IF spectroscopy = <<>> \/ ~Photometry THEN "TypeError" ELSE "none"

(* Steps 4 to 6: obs = fix_obs(data.to_dict()), then the fit and the       *)
(* writer, which are the backend's and may fail                            *)
FitAndSave ==
    /\ pc = "done"
    /\ \E fitted \in BOOLEAN :
          IF ToDict # "none" \/ ~fitted
            THEN /\ Raise(IF ToDict # "none" THEN ToDict ELSE "RuntimeError")
                 /\ UNCHANGED results
            ELSE /\ results' = Append(results, "output")
                 /\ pc' = "next"
                 /\ UNCHANGED error
    /\ UNCHANGED <<config, model_params, status, builds, first, basis_imported,
                   spectroscopy, dispersion, sps, wave_obs, sigma_v, wave_lsf,
                   delta_v, reads, returned, local_targets, mpi_vars>>

(* The handler of run_fitting_pipeline *)
CatchError ==
    /\ pc = "raised"
    /\ pc' = ExceptException(error)
    /\ results' = IF pc' = "next" THEN Append(results, "None") ELSE results
    /\ UNCHANGED <<graph_vars, basis_imported, spectroscopy, dispersion, sps,
                   wave_obs, sigma_v, wave_lsf, delta_v, reads, returned,
                   local_targets, mpi_vars>>

NextBatch ==
    \/ LoadData
    \/ BuildModel
    \/ SelectBasis
    \/ DecideSmoothing
    \/ ReadDispersion
    \/ ComputeLsf
    \/ EnableSmoothing
    \/ SetLsf
    \/ ReturnBasis
    \/ FitAndSave
    \/ CatchError

(* A worker is a sequential program: it always takes its next step *)
SpecBatch == InitBatch /\ [][NextBatch]_vars /\ WF_vars(NextBatch)

-----------------------------------------------------------------------------
(* The main program of run.py under MPI: every rank runs it on the same    *)
(* target list; the ranks interleave freely.  The pipeline of one target   *)
(* is one step here: the call, and the result file if the fit got there.   *)

(* Paths of target files; two directories may hold files of one name *)
Paths == [dir : {"a", "b"}, name : {"g1", "g2"}]

(* os.path.splitext(os.path.basename(path))[0] *)
GalaxyName(path) == path.name

(* os.path.join(config.out_folder, f"{galaxy_name}.h5") *)
OutputPath(galaxy_name) == <<"out", galaxy_name, "h5">>

(* mutant: every rank takes the list from its own index on *)
SliceFromStart(seq, start, step) ==
    IF start >= Len(seq) THEN <<>>
    ELSE [k \in 1..(Len(seq) - start) |-> seq[start + k]]

(* seq[start::step] *)
Slice(seq, start, step) ==
    IF start >= Len(seq) THEN <<>>
    ELSE [k \in 1..((Len(seq) - start + step - 1) \div step) |->
            seq[start + (k - 1) * step + 1]]

InitMpi ==
    /\ \E n \in 0..MaxList : targets \in [1..n -> Paths]
    /\ \E size \in 1..MaxRanks :
          /\ rank_pc = [r \in 0..(size - 1) |-> "boot"]
          /\ rank_targets = [r \in 0..(size - 1) |-> <<>>]
          /\ processed = [r \in 0..(size - 1) |-> <<>>]
    /\ writes = {}
    /\ local_targets = <<>>
    /\ results = <<>>
    /\ SpsIdle
    /\ config = RichConfig
    /\ model_params = EmptyParams
    /\ status = "configured"
    /\ error = "none"
    /\ builds = 0
    /\ first = [config |-> config, params |-> EmptyParams, error |-> "none"]

(* run_fitting_pipeline(config, rank, galaxy_name) on rank r: the result   *)
(* file is written when the fit completes, not when the pipeline fails     *)
RunFittingPipeline(r, path) ==
    /\ processed' = [processed EXCEPT ![r] = Append(@, path)]
    /\ \E fitted \in BOOLEAN :
          writes' = IF fitted
                      THEN writes \cup {[rank |-> r,
                                         file |-> OutputPath(GalaxyName(path))]}
                      ELSE writes

(* The choice of the run mode, and in batch mode the rank's share *)
Boot(r) ==
    /\ rank_pc[r] = "boot"
    /\ LET total_targets == Len(targets)
           size == Cardinality(DOMAIN rank_pc)
           share == Slice(targets, r, size)
       IN  IF total_targets = 0
             THEN /\ rank_pc' = [rank_pc EXCEPT ![r] = "exit1"]
                  /\ UNCHANGED rank_targets
           ELSE IF total_targets = 1 /\ size > 1
             THEN /\ rank_pc' = [rank_pc EXCEPT ![r] = "single"]
                  /\ UNCHANGED rank_targets
           ELSE /\ rank_targets' = [rank_targets EXCEPT ![r] = share]
                /\ rank_pc' = [rank_pc EXCEPT ![r] =
                                  IF share = <<>> THEN "exit0" ELSE "batch"]
    /\ UNCHANGED <<graph_vars, sps_vars, local_targets, results, targets,
                   processed, writes>>

(* CASE A: the single target, on this rank *)
RunSingle(r) ==
    /\ rank_pc[r] = "single"
    /\ RunFittingPipeline(r, targets[1])
    /\ rank_pc' = [rank_pc EXCEPT ![r] = "done"]
    /\ UNCHANGED <<graph_vars, sps_vars, local_targets, results, targets,
                   rank_targets>>

(* CASE B: one turn of the for loop over local_targets *)
RunNext(r) ==
    /\ rank_pc[r] = "batch"
    /\ LET k == Len(processed[r]) + 1 IN
       /\ RunFittingPipeline(r, rank_targets[r][k])
       /\ rank_pc' = [rank_pc EXCEPT ![r] =
                         IF k = Len(rank_targets[r]) THEN "done" ELSE "batch"]
    /\ UNCHANGED <<graph_vars, sps_vars, local_targets, results, targets,
                   rank_targets>>

NextMpi ==
    \/ \E r \in DOMAIN rank_pc : Boot(r)
    \/ \E r \in DOMAIN rank_pc : RunSingle(r)
    \/ \E r \in DOMAIN rank_pc : RunNext(r)

SpecMpi == InitMpi /\ [][NextMpi]_vars

-----------------------------------------------------------------------------
(* Properties of the graph construction. *)

Derived(node) == ~node.isfree /\ node.depends_on # "absent"

(* The graph BaseModel returns for cfg in a fresh process *)
GraphOf(cfg) == BaseModel(EmptyParams, TemplateLibrary, cfg)

C2_MarginNeedsNebular ==
    (builds >= 1 /\ config.margin_elines /\ ~config.add_nebular) =>
        /\ status = "raised"
        /\ error = "ValueError"
        /\ model_params = EmptyParams

C2_Witness ==
    /\ builds = 1
    /\ config.margin_elines /\ ~config.add_nebular
    /\ config.lines = <<>>
    /\ config.use_spectroscopy
    /\ status = "raised"

(* The keys only the marginalization patch writes *)
MarginalizationKeys ==
    {"marginalize_elines", "use_eline_prior", "eline_prior_width",
     "elines_to_fit", "fit_eline_redshift", "eline_delta_zred"}

(* C3: margin_elines with add_nebular and an empty line table raises       *)
(* nothing and returns the graph of the same config with margin_elines     *)
(* off: no marginalization node, and eline_sigma as the nebular patch set  *)
(* it.                                                                     *)
C3_EmptyTableSkips ==
    (builds >= 1 /\ config.margin_elines /\ config.add_nebular
        /\ config.lines = <<>>) =>
        /\ status = "built"
        /\ error = "none"
        /\ model_params = GraphOf([config EXCEPT !.margin_elines = FALSE]).params
        /\ MarginalizationKeys \cap DOMAIN model_params = {}
        /\ model_params["eline_sigma"] =
               Free(1, "150.0", "km/s", TopHat("50", "500"))

C3_Witness ==
    /\ builds = 1
    /\ status = "built"
    /\ config.margin_elines /\ config.add_nebular /\ config.lines = <<>>
    /\ config.fit_eline_redshift
    /\ "eline_sigma" \in DOMAIN model_params

(* C4: the graph built with add_dust1 holds exactly the nodes of the graph *)
(* built from the same config without add_dust1, each unchanged, and two   *)
(* more: the Derived dust1 and the Free dust1_fraction.                    *)
C4_Dust1Toggle ==
    (status = "built" /\ config.add_dust1) =>
        LET off == GraphOf([config EXCEPT !.add_dust1 = FALSE]) IN
        /\ off.raised = "none"
        /\ {"dust1", "dust1_fraction"} \cap DOMAIN off.params = {}
        /\ DOMAIN model_params = DOMAIN off.params \cup {"dust1", "dust1_fraction"}
        /\ \A k \in DOMAIN off.params : model_params[k] = off.params[k]
        /\ Derived(model_params["dust1"])
        /\ model_params["dust1_fraction"].isfree
        /\ model_params["dust1_fraction"].prior.kind = "ClippedNormal"

C4_Witness ==
    /\ status = "built"
    /\ config.add_dust1 /\ config.add_duste /\ config.add_nebular
    /\ "dust1" \in DOMAIN model_params

(* The configuration of the end-to-end scenario, the flags it does not     *)
(* name at their defaults.                                                 *)
ScenarioConfig ==
    /\ config.nbins = 4 /\ config.fixed_z /\ config.redshift = <<50>>
    /\ ~config.add_nebular /\ ~config.add_duste /\ ~config.add_dust1
    /\ ~config.use_spectroscopy
    /\ ~config.fit_outliers_spec /\ ~config.fit_outliers_photo
    /\ ~config.margin_elines

(* C5 as stated: the scenario's graph holds the total mass, the per-bin    *)
(* masses, the bin edges, the redshift, the metallicity and the IMF type,  *)
(* and nothing else.                                                       *)
C5_AsStated ==
    (status = "built" /\ ScenarioConfig) =>
        DOMAIN model_params =
            {"logmass", "mass", "agebins", "zred", "logzsol", "imf_type"}

(* C5, amended: the scenario's graph holds exactly the nodes of the        *)
(* continuity template (total mass, per-bin masses of arity 4, bin edges,  *)
(* bin ratios, SFH code, Fixed redshift 0.5), the metallicity, the IMF     *)
(* type and the three dust nodes every graph has; it holds no              *)
(* dust-emission, dust1, nebular, calibration or outlier node.             *)
C5_Scenario ==
    (status = "built" /\ ScenarioConfig) =>
        /\ DOMAIN model_params =
              {"logmass", "mass", "agebins", "logsfr_ratios", "sfh", "zred",
               "logzsol", "imf_type", "dust_type", "dust2", "dust_index"}
        /\ model_params["mass"].N = 4
        /\ Derived(model_params["mass"])
        /\ model_params["agebins"].N = 4
        /\ model_params["zred"] = Fixed(1, 50, "redshift")
        /\ model_params["logmass"].isfree
        /\ model_params["logzsol"].isfree
        /\ ~model_params["imf_type"].isfree

C5_Witness ==
    /\ status = "built" /\ ScenarioConfig
    /\ "dust2" \in DOMAIN model_params
    /\ model_params["zred"].init = 50

-----------------------------------------------------------------------------
(* Properties of the basis selection. *)

HasAgebins == "agebins" \in DOMAIN model_params

HasTau == "tau" \in DOMAIN model_params

(* C6: once the graph has been inspected, a graph with the bin-edge node   *)
(* has the time-binned basis, with or without an analytic-timescale node,  *)
(* and the parametric basis exists only for a graph with the timescale     *)
(* node and no bin-edge node; the caller receives that same basis.         *)
C6_BasisPrecedence ==
    (pc # "select") =>
        /\ HasAgebins => sps.kind = "FastStepBasis"
        /\ sps.kind = "CSPSpecBasis" <=> (HasTau /\ ~HasAgebins)
        /\ returned # <<>> => returned[1].kind = sps.kind

C6_Witness ==
    /\ pc = "done"
    /\ HasAgebins /\ HasTau
    /\ returned # <<>>
    /\ returned[1].kind = "FastStepBasis"

(* C7: for a graph with neither node build_sps ends in its ValueError (the *)
(* spec's ConfigurationError): no basis object exists, none is returned,   *)
(* the dispersion file is never opened and no kernel is computed.          *)
C7_NeitherNodeRaises ==
    (pc # "select" /\ ~HasAgebins /\ ~HasTau) =>
        /\ pc = "raised"
        /\ error = "ValueError"
        /\ sps = NoBasis
        /\ returned = <<>>
        /\ reads = 0
        /\ wave_lsf = <<>> /\ delta_v = <<>>

C7_Witness ==
    /\ pc = "raised"
    /\ ~HasAgebins /\ ~HasTau
    /\ config.add_sigmav /\ config.dispersion_file # <<>>
    /\ dispersion.readable
    /\ spectroscopy # <<>>

-----------------------------------------------------------------------------
(* Properties of the kernel. *)

LsfComputed == pc \in {"enable", "set_lsf", "return", "done"}

RestOf(i) == WaveRest(wave_obs[i], RedshiftOrZero(config))

(* The input pixel behind entry k of the kernel (the grid is increasing) *)
PixelOf(k) == CHOOSE i \in 1..Len(wave_obs) : RestOf(i) = wave_lsf[k]

(* sigma against c * 2.54 / (2.355 * rest), compared exactly *)
LibraryBound(i) == (((Lightspeed \div 100) * MilesFwhm) \div 5) * RestOf(i).den

BelowLibrary(i) ==
    sigma_v[i] * (FwhmPerSigma \div 5) * wave_obs[i] < LibraryBound(i)

AboveLibrary(i) ==
    sigma_v[i] * (FwhmPerSigma \div 5) * wave_obs[i] > LibraryBound(i)

(* C8: no correction of the kernel is NaN or negative, and the correction  *)
(* of a pixel whose instrumental sigma is below the library's is exactly 0.*)
C8_Clipped ==
    LsfComputed =>
        \A k \in 1..Len(delta_v) :
            /\ delta_v[k] # NaN
            /\ delta_v[k] >= 0
            /\ BelowLibrary(PixelOf(k)) => delta_v[k] = 0

C8_Witness ==
    /\ LsfComputed
    /\ Len(delta_v) = 2
    /\ BelowLibrary(PixelOf(1)) /\ delta_v[1] = 0
    /\ AboveLibrary(PixelOf(2)) /\ delta_v[2] > 0

(* C9: every entry of the kernel comes from an input pixel of positive     *)
(* sigma, no pixel of zero or negative sigma is in it, and the kernel is   *)
(* shorter than the input when the input has such a pixel.                 *)
C9_NonPositiveDropped ==
    LsfComputed =>
        /\ \A k \in 1..Len(wave_lsf) :
              \E i \in 1..Len(wave_obs) :
                  RestOf(i) = wave_lsf[k] /\ sigma_v[i] # NaN /\ sigma_v[i] > 0
        /\ \A i \in 1..Len(wave_obs) :
              (sigma_v[i] # NaN /\ sigma_v[i] <= 0) =>
                  /\ \A k \in 1..Len(wave_lsf) : wave_lsf[k] # RestOf(i)
                  /\ Len(wave_lsf) < Len(wave_obs)

C9_Witness ==
    /\ LsfComputed
    /\ Len(wave_obs) = 2 /\ Len(wave_lsf) = 1
    /\ sigma_v[1] = 0
    /\ ValidRestWave(RestOf(1))
    /\ sigma_v[2] > 0

InsideClosed(i) == ~FracLt(RestOf(i), MilesMin) /\ ~FracGt(RestOf(i), MilesMax)

InsideOpen(i) == FracGt(RestOf(i), MilesMin) /\ FracLt(RestOf(i), MilesMax)

OnePerPixel ==
    /\ Len(wave_lsf) = Len(wave_obs)
    /\ \A i \in 1..Len(wave_obs) :
          /\ wave_lsf[i] = RestOf(i)
          /\ delta_v[i] # NaN /\ delta_v[i] > 0

-----------------------------------------------------------------------------
(* Properties of the failure modes of build_sps. *)

(* build_sps has entered _apply_smoothing and left its reading part *)
SmoothingAttempted ==
    /\ config.add_sigmav /\ HasAgebins /\ config.dispersion_file # <<>>
    /\ pc \notin {"select", "smoothing", "apply"}

NoPartialEffect ==
    /\ wave_lsf = <<>> /\ delta_v = <<>>
    /\ ~sps.smooth_lsf
    /\ sps.lsf = <<>>
    /\ returned = <<>>

AllPixelsFiltered ==
    /\ SmoothingAttempted
    /\ wave_obs # <<>> /\ Len(sigma_v) = Len(wave_obs)
    /\ pc # "get_lsf"
    /\ wave_lsf = <<>> /\ delta_v = <<>>

(* C12 as stated: when the filters remove every pixel, the kernel is two   *)
(* zero-length arrays, no error is raised, and the injection into the      *)
(* basis completes: build_sps goes on to return the basis.                 *)
C12_AsStated ==
    AllPixelsFiltered => (pc # "raised" /\ error = "none")

(* The wavelengths handed to the builder are not as many as the fluxes *)
ShapeMismatch ==
    /\ spectroscopy # <<>>
    /\ \/ Len(spectroscopy[1].wavelength) # Len(spectroscopy[1].flux)
       \/ Len(spectroscopy[1].wavelength) # Len(spectroscopy[1].flux_err)

(* C13 as stated: when the wavelength array is not as long as the flux and *)
(* flux-error arrays, resolution matching raises before a kernel is        *)
(* computed or attached to the basis.                                      *)
C13_AsStated ==
    (SmoothingAttempted /\ ShapeMismatch /\ dispersion.readable) =>
        /\ pc = "raised"
        /\ wave_lsf = <<>> /\ delta_v = <<>>
        /\ sps.lsf = <<>>

-----------------------------------------------------------------------------
(* Properties of the batch loop. *)

(* How far the worker is: the targets done, then the position in the one  *)
(* it is working on                                                        *)
Progress ==
    16 * Len(results) +
    (CASE pc = "next"      -> 0
       [] pc = "model"     -> 1
       [] pc = "select"    -> 2
       [] pc = "smoothing" -> 3
       [] pc = "apply"     -> 4
       [] pc = "get_lsf"   -> 5
       [] pc = "enable"    -> 6
       [] pc = "set_lsf"   -> 7
       [] pc = "return"    -> 8
       [] pc = "done"      -> 9
       [] OTHER            -> 10)

(* C14: an exception raised for a target, whatever the step, is caught by  *)
(* run_fitting_pipeline, which returns None for that target and nothing    *)
(* else; results are only ever appended, one per target; every step takes  *)
(* the worker forward, a raised exception always meets its handler and the *)
(* worker never leaves the loop, so it can only stop with one result for   *)
(* each of its targets.                                                    *)
C14_FaultIsolation ==
    /\ [][(pc = "raised") =>
             (pc' = "next" /\ results' = Append(results, "None"))]_vars
    /\ [][\/ results' = results
          \/ \E r \in {"None", "output"} : results' = Append(results, r)]_vars
    /\ [][Progress' > Progress]_vars
    /\ [](Len(results) <= Len(local_targets))
    /\ [](pc = "raised" => ENABLED CatchError)
    /\ [](pc # "crashed")
    /\ [](pc = "next" \/ Len(results) < Len(local_targets))

C14_Witness ==
    /\ Len(local_targets) = 2
    /\ config.add_sigmav /\ dispersion.readable
    /\ local_targets[1].file.state = "ok"
    /\ local_targets[1].file.spectroscopy # <<>>
    /\ local_targets[1].file.redshift = <<0>>
    /\ results = <<"None", "output">>
    /\ pc = "next"

-----------------------------------------------------------------------------
(* Properties of the library domain. *)

(* Pixel i of the input has an entry in the kernel *)
Kept(i) == \E k \in 1..Len(wave_lsf) : wave_lsf[k] = RestOf(i)

C16_AsStated ==
    ((~config.use_spectroscopy \/ ~config.add_sigmav) /\ (HasAgebins \/ HasTau)) =>
        /\ pc # "raised" /\ error = "none"
        /\ reads = 0
        /\ wave_lsf = <<>> /\ delta_v = <<>>
        /\ ~sps.smooth_lsf /\ sps.lsf = <<>>

-----------------------------------------------------------------------------
(* Further properties of the graph. *)

(* The redshift estimate in hundredths, 0 when there is none *)
Estimate == IF config.redshift = <<>> THEN 0 ELSE config.redshift[1]

(* C17: every constructed graph has the node zred; with fixed_z off it is  *)
(* free, starts at the estimate z (0 without one) and has a clipped normal *)
(* prior of mean z, sigma 0.05 and bounds z - 0.5, z + 0.5; with fixed_z   *)
(* on it is fixed at z, without prior or dependency; whatever patches ran  *)
(* after the first one.                                                    *)
C17_RedshiftNode ==
    (status = "built") =>
        /\ "zred" \in DOMAIN model_params
        /\ LET node == model_params["zred"] IN
           /\ node.N = 1
           /\ node.init = Estimate
           /\ node.depends_on = "absent"
           /\ node.isfree = ~config.fixed_z
           /\ node.prior = IF config.fixed_z THEN NoPrior
                           ELSE [kind |-> "ClippedNormal", mean |-> Estimate,
                                 sigma |-> 5, mini |-> Estimate - 50,
                                 maxi |-> Estimate + 50]

C17_Witness ==
    /\ status = "built"
    /\ config.fixed_z /\ config.redshift = <<50>>
    /\ config.add_nebular /\ config.margin_elines /\ config.lines # <<>>
    /\ config.fit_eline_redshift /\ config.use_spectroscopy
    /\ "eline_delta_zred" \in DOMAIN model_params
    /\ model_params["zred"].init = 50
    /\ ~model_params["zred"].isfree

IsFree(node) == node.isfree

IsFixed(node) == ~node.isfree /\ node.depends_on = "absent"

(* The pair of outlier nodes of one data type, both or neither *)
OutlierPair(fraction, width, wanted) ==
    /\ (fraction \in DOMAIN model_params) <=> wanted
    /\ (width \in DOMAIN model_params) <=> wanted
    /\ wanted =>
          /\ IsFree(model_params[fraction])
          /\ model_params[fraction].prior.kind = "TopHat"
          /\ IsFixed(model_params[width])
          /\ model_params[width].prior = NoPrior

(* C18: the spectroscopic outlier pair is in the graph exactly when        *)
(* fit_outliers_spec and use_spectroscopy are both on, the photometric     *)
(* pair exactly when fit_outliers_photo and use_photometry are both on;    *)
(* the fraction node is free, the width node fixed, and the two widths     *)
(* have the same value when both are there.                                *)
C18_Outliers ==
    (status = "built") =>
        /\ OutlierPair("f_outlier_spec", "nsigma_outlier_spec",
                       config.fit_outliers_spec /\ config.use_spectroscopy)
        /\ OutlierPair("f_outlier_phot", "nsigma_outlier_phot",
                       config.fit_outliers_photo /\ config.use_photometry)
        /\ ({"nsigma_outlier_spec", "nsigma_outlier_phot"} \subseteq DOMAIN model_params)
              => model_params["nsigma_outlier_spec"].init
                    = model_params["nsigma_outlier_phot"].init

C18_Witness ==
    /\ status = "built"
    /\ config.fit_outliers_spec /\ ~config.use_spectroscopy
    /\ config.fit_outliers_photo /\ config.use_photometry
    /\ "f_outlier_phot" \in DOMAIN model_params
    /\ "f_outlier_spec" \notin DOMAIN model_params

(* C19: the patches run in the order of the constructor and a key written  *)
(* twice holds what the last patch wrote: with the nebular patch and the   *)
(* line marginalization on a non-empty table, eline_sigma is the           *)
(* marginalization's node (init 300, TopHat 50 to 1000); with the nebular  *)
(* patch alone it is the nebular one (init 150, TopHat 50 to 500); the     *)
(* metallicity and the dust optical depth are the patches' nodes, not the  *)
(* SFH template's.                                                         *)
C19_LastWriterWins ==
    (status = "built") =>
        /\ config.add_nebular =>
              /\ "eline_sigma" \in DOMAIN model_params
              /\ model_params["eline_sigma"].isfree
              /\ model_params["eline_sigma"].init =
                    IF config.margin_elines /\ config.lines # <<>>
                      THEN "300.0" ELSE "150.0"
              /\ model_params["eline_sigma"].prior =
                    IF config.margin_elines /\ config.lines # <<>>
                      THEN [kind |-> "TopHat", mini |-> "50.0", maxi |-> "1000.0"]
                      ELSE [kind |-> "TopHat", mini |-> "50", maxi |-> "500"]
        /\ model_params["logzsol"] # ContinuitySfhTemplate["logzsol"]
        /\ model_params["dust2"] # ContinuitySfhTemplate["dust2"]
        /\ model_params["logmass"].init = "10.5"

C19_Witness ==
    /\ status = "built"
    /\ config.add_nebular /\ config.margin_elines /\ config.lines # <<>>
    /\ model_params["eline_sigma"].init = "300.0"
    /\ model_params["eline_sigma"].prior.maxi = "1000.0"
    /\ model_params["gas_logu"].isfree

HasInit(node) == "init" \in DOMAIN node

(* C20: in every constructed graph a free node has a prior and an initial  *)
(* value, a fixed node has an initial value (and, being fixed, no          *)
(* dependency), a derived node has its dependency and no prior; the three  *)
(* dust-emission nodes the constructor frees are free with their new       *)
(* TopHat priors.                                                          *)
C20_StatusFields ==
    (status = "built") =>
        /\ \A k \in DOMAIN model_params :
              LET node == model_params[k] IN
              /\ HasInit(node)
              /\ IsFree(node) => (node.prior # NoPrior /\ node.depends_on = "absent")
              /\ Derived(node) => node.prior = NoPrior
              /\ IsFree(node) \/ IsFixed(node) \/ Derived(node)
        /\ config.add_duste =>
              /\ {"duste_gamma", "duste_qpah", "duste_umin"} \subseteq DOMAIN model_params
              /\ \A k \in {"duste_gamma", "duste_qpah", "duste_umin"} :
                    /\ IsFree(model_params[k])
                    /\ model_params[k].prior.kind = "TopHat"
              /\ model_params["duste_qpah"].prior.maxi = "10.0"

C20_Witness ==
    /\ status = "built"
    /\ config.add_duste /\ config.add_dust1 /\ config.add_nebular
    /\ IsFree(model_params["duste_gamma"])
    /\ model_params["duste_gamma"].prior = [kind |-> "TopHat", mini |-> "0.0", maxi |-> "1.0"]
    /\ Derived(model_params["dust1"])
    /\ Derived(model_params["mass"])

(* C21: in every constructed graph the nodes a derived node is computed    *)
(* from are in the graph: mass has logmass, logsfr_ratios and agebins, and *)
(* dust1, when there, has dust1_fraction and dust2.                        *)
C21_NoDanglingReference ==
    (status = "built") =>
        /\ \A k \in DOMAIN model_params :
              Derived(model_params[k]) =>
                  /\ TransformSources(model_params[k].depends_on) # {}
                  /\ TransformSources(model_params[k].depends_on)
                        \subseteq DOMAIN model_params
        /\ "mass" \in DOMAIN model_params
        /\ model_params["mass"].depends_on = "logsfr_ratios_to_masses"
        /\ ("dust1" \in DOMAIN model_params) <=> config.add_dust1
        /\ config.add_dust1 => model_params["dust1"].depends_on = "dustratio_to_dust1"

C21_Witness ==
    /\ status = "built"
    /\ config.add_dust1 /\ ~config.add_duste /\ ~config.add_nebular
    /\ Derived(model_params["dust1"])
    /\ {"dust1_fraction", "dust2", "logmass", "logsfr_ratios", "agebins"}
          \subseteq DOMAIN model_params

-----------------------------------------------------------------------------
(* Properties of the distribution of the targets over the ranks. *)

Size == Cardinality(DOMAIN rank_pc)

BatchMode == Len(targets) > 1 \/ (Len(targets) = 1 /\ Size = 1)

AllBooted == \A r \in DOMAIN rank_pc : rank_pc[r] # "boot"

(* The places of a rank's share that hold entry i of the target list *)
Holds(r, i) ==
    LET p == CHOOSE q \in [1..Len(rank_targets[r]) -> 1..Len(targets)] :
                 \A k \in DOMAIN q : q[k] = r + (k - 1) * Size + 1
    IN  {k \in DOMAIN p : p[k] = i}

(* C22: in batch mode, once the ranks have taken their shares, every entry *)
(* of the target list is in the share of exactly one rank, at one place,   *)
(* and the shares keep the order of the list; a rank works through its     *)
(* share in order and has all of it done at its end; a rank whose share is *)
(* empty exits having run nothing.                                         *)
C22_Partition ==
    BatchMode =>
        /\ \A r \in DOMAIN rank_pc :
              /\ rank_pc[r] # "boot" =>
                    /\ \A k \in 1..Len(rank_targets[r]) :
                          /\ r + (k - 1) * Size + 1 <= Len(targets)
                          /\ rank_targets[r][k] = targets[r + (k - 1) * Size + 1]
                    /\ (rank_targets[r] = <<>>) <=> (rank_pc[r] = "exit0")
              /\ Len(processed[r]) <= Len(rank_targets[r])
              /\ \A k \in 1..Len(processed[r]) : processed[r][k] = rank_targets[r][k]
              /\ rank_pc[r] = "done" => processed[r] = rank_targets[r]
              /\ rank_pc[r] = "exit0" => processed[r] = <<>>
        /\ AllBooted =>
              \A i \in 1..Len(targets) :
                  /\ Cardinality({r \in DOMAIN rank_pc : Holds(r, i) # {}}) = 1
                  /\ \A r \in DOMAIN rank_pc : Cardinality(Holds(r, i)) <= 1

C22_Witness ==
    /\ Size = 2 /\ Len(targets) = 3
    /\ rank_pc[0] = "done" /\ rank_pc[1] = "done"
    /\ processed[0] = <<targets[1], targets[3]>>
    /\ processed[1] = <<targets[2]>>
    /\ targets[1] # targets[3]

(* The targets a rank has run the fitting pipeline for *)
Ran(r) == {processed[r][k] : k \in DOMAIN processed[r]}

(* C25: in every run mode no target has the fitting pipeline run for it by *)
(* two ranks, and no result file is written by two ranks.                  *)
C25_AsStated ==
    /\ \A r1, r2 \in DOMAIN rank_pc : r1 # r2 => Ran(r1) \cap Ran(r2) = {}
    /\ \A w1, w2 \in writes : w1.file = w2.file => w1.rank = w2.rank

(* C26: for a target whose file loaded and whose basis was built, with at  *)
(* least one of use_photometry and use_spectroscopy enabled, the step from *)
(* the built basis calls the fitting backend: it does not fail on the      *)
(* observation dictionary because one data type is off or not in the file. *)
C26_AsStated ==
    [][(/\ pc = "done"
        /\ config.use_photometry \/ config.use_spectroscopy)
            => ~(pc' = "raised" /\ error' = "TypeError")]_vars

-----------------------------------------------------------------------------
(* Properties of the order of the steps of build_sps. *)

(* The place of a position in the text of build_sps *)
Stage(p) ==
    CASE p = "select"    -> 0
      [] p = "smoothing" -> 1
      [] p = "apply"     -> 2
      [] p = "get_lsf"   -> 3
      [] p = "enable"    -> 4
      [] p = "set_lsf"   -> 5
      [] p = "return"    -> 6
      [] OTHER           -> 7

(* C23: build_sps only moves forward, so the kernel is built once at most  *)
(* and injected once at most; a kernel, the smoothing flag and an attached *)
(* kernel exist only on a selected basis; the flag is set before the       *)
(* kernel is attached, the attached kernel is the one that was built, and  *)
(* a returned basis has the flag if and only if it has a kernel.           *)
C23_KernelOnce ==
    /\ [][Stage(pc') > Stage(pc)]_vars
    /\ [][(wave_lsf' # wave_lsf \/ delta_v' # delta_v) => pc = "get_lsf"]_vars
    /\ [][sps'.lsf # sps.lsf => (pc = "set_lsf" /\ sps.smooth_lsf)]_vars
    /\ []((wave_lsf # <<>> \/ sps.smooth_lsf \/ sps.lsf # <<>>)
             => sps.kind = "FastStepBasis")
    /\ [](sps.lsf # <<>> =>
             (sps.smooth_lsf /\ sps.lsf = <<[wave |-> wave_lsf, sigma |-> delta_v]>>))
    /\ [](returned # <<>> =>
             (returned[1].smooth_lsf <=> returned[1].lsf # <<>>))

C23_Witness ==
    /\ pc = "done"
    /\ returned # <<>>
    /\ returned[1].smooth_lsf
    /\ returned[1].lsf = <<[wave |-> wave_lsf, sigma |-> delta_v]>>
    /\ Len(wave_lsf) = 2

-----------------------------------------------------------------------------
(* Properties of the redshift estimate along the pipeline. *)

(* The target run_fitting_pipeline is working on *)
Current == local_targets[Len(results) + 1]

(* The estimate the claim expects for it: the one of the base config, else *)
(* the numeric one of the file, else none                                  *)
ExpectedEstimate ==
    IF Current.config.redshift # <<>> THEN Current.config.redshift
    ELSE IF Current.file.numeric THEN Current.file.redshift
    ELSE <<>>

ExpectedZ == IF ExpectedEstimate = <<>> THEN 0 ELSE ExpectedEstimate[1]

(* C24: once a target's data is loaded its config holds the redshift of    *)
(* the base config if there is one, else the numeric redshift of the       *)
(* file's metadata, else none; the graph built afterwards has zred at that *)
(* estimate (0 without one) and the kernel built afterwards divides the    *)
(* wavelengths by 1 + that same estimate.                                  *)
C24_OneEstimate ==
    (pc \notin {"next", "raised", "crashed"}) =>
        /\ config.redshift = ExpectedEstimate
        /\ pc # "model" =>
              /\ status = "built"
              /\ model_params["zred"].init = ExpectedZ
        /\ pc \in {"enable", "set_lsf", "return", "done"} =>
              \A k \in 1..Len(wave_lsf) :
                  \E i \in 1..Len(wave_obs) :
                      wave_lsf[k] = [num |-> 100 * wave_obs[i], den |-> 100 + ExpectedZ]

C24_Witness ==
    /\ pc = "done"
    /\ Len(results) = 1
    /\ local_targets[1].file.redshift = <<0>>
    /\ Current.config.redshift = <<>>
    /\ Current.file.redshift = <<100>> /\ Current.file.numeric
    /\ model_params["zred"].init = 100
    /\ Len(wave_lsf) = 2
    /\ wave_lsf[1] = [num |-> 900000, den |-> 200]

-----------------------------------------------------------------------------
(* Properties of the smoothing condition of build_sps. *)

(* The basis build_sps selects for the graph *)
Selected == BasisKind(DOMAIN model_params)

(* The cases in which the smoothing condition is false *)
SmoothingOff ==
    \/ ~config.add_sigmav
    \/ config.dispersion_file = <<>>
    \/ Selected = "CSPSpecBasis"

(* C27: when a basis is selected and the resolution flag is set with no    *)
(* dispersion file configured, or the basis is the parametric one,         *)
(* build_sps raises nothing, reads no dispersion file, builds no kernel,   *)
(* leaves the smoothing flag off and the kernel unattached, and returns    *)
(* the selected basis, which is the one it returns with the flag unset.    *)
C27_SmoothingSkipped ==
    (basis_imported /\ Selected # "none" /\ SmoothingOff) =>
        /\ pc \in {"select", "smoothing", "return", "done"}
        /\ error = "none"
        /\ reads = 0 /\ wave_lsf = <<>> /\ delta_v = <<>>
        /\ ~sps.smooth_lsf /\ sps.lsf = <<>>
        /\ pc = "done" => returned = <<NewBasis(Selected, config.z_continuous)>>

C27_Witness ==
    /\ pc = "done"
    /\ config.add_sigmav /\ config.dispersion_file # <<>>
    /\ config.use_spectroscopy /\ spectroscopy # <<>> /\ dispersion.readable
    /\ Selected = "CSPSpecBasis"
    /\ returned = <<NewBasis("CSPSpecBasis", config.z_continuous)>>

====
